---- MODULE Spec2Model ----
(***************************************************************************)
(* State-machine model of Github_repoo_creator.py: one run of main(), from *)
(* process start to process termination.  Every external interaction (a    *)
(* helper-CLI subprocess, an HTTPS call, a console prompt) is one action   *)
(* whose outcome is drawn from the outcomes the call can produce.          *)
(*                                                                         *)
(* Text is a sequence of one-character strings; the fixed pieces of a      *)
(* formatted message are kept as single multi-character chunks.  The       *)
(* program's Chinese message literals are rendered in English.             *)
(***************************************************************************)
EXTENDS Integers, Sequences, FiniteSets, TLC

\* Longest console input / subprocess output / login value that is enumerated.
MaxLen == 2

\* ------------------------------------------------------------------ text

\* Python optional values: None, or a string.
None == [some |-> FALSE, val |-> <<>>]
Some(s) == [some |-> TRUE, val |-> s]

\* Python truthiness of an optional string: None and "" are falsy.
Truthy(o) == o.some /\ o.val # <<>>

\* `s if s else None`
OrNone(s) == IF s # <<>> THEN Some(s) ELSE None

\* The characters str.strip() removes (those that occur in the inputs).
Whitespace == {" ", "\t", "\n"}

RECURSIVE LStrip(_)
LStrip(s) == IF s = <<>> THEN s
             ELSE IF Head(s) \in Whitespace THEN LStrip(Tail(s)) ELSE s

RECURSIVE RStrip(_)
RStrip(s) == IF s = <<>> THEN s
             ELSE IF s[Len(s)] \in Whitespace THEN RStrip(SubSeq(s, 1, Len(s) - 1))
             ELSE s

\* A plausible slip: only leading whitespace is removed.
StripLeftOnly(s) == LStrip(s)

\* str.strip()
Strip(s) == RStrip(LStrip(s))

UpperChar(c) == CASE c = "n" -> "N" [] c = "y" -> "Y" [] OTHER -> c

\* str.upper()
Upper(s) == [i \in 1..Len(s) |-> UpperChar(s[i])]

\* str(x) as an f-string placeholder formats it: None prints as "None".
Format(o) == IF o.some THEN o.val ELSE <<"N", "o", "n", "e">>

\* All strings over alphabet S of length at most n.
Strings(S, n) == UNION {[1..k -> S] : k \in 0..n}

\* f"{response.status_code}"
StatusStr(s) == CASE s = 200 -> "200" [] s = 201 -> "201" [] s = 401 -> "401"
                  [] s = 422 -> "422" [] OTHER -> "???"

\* ------------------------------------------------- the outside world

\* Console input: a line is read, or Ctrl-C (KeyboardInterrupt), or end of
\* input (EOFError).
ConsoleEvents == {"line", "interrupt", "eof"}

AnswerLines == Strings({" ", "n", "N"}, MaxLen) \cup {<<"y">>}
TokenLines == Strings({" ", "t"}, MaxLen)
NameLines == Strings({" ", "d"}, MaxLen) \cup {<<"\t">>}

\* subprocess.run outcomes: the process exits (returncode, stdout, stderr),
\* the executable is missing (FileNotFoundError), the timeout expires
\* (TimeoutExpired), or the user interrupts the wait.
NoText == <<>>
Exit(rc, out, err) == [kind |-> "exit", rc |-> rc, stdout |-> out, stderr |-> err]
ProcFault(k) == [kind |-> k, rc |-> 0, stdout |-> NoText, stderr |-> NoText]

ProbeOutcomes == {Exit(rc, NoText, NoText) : rc \in {0, 1}}
                   \cup {ProcFault("missing"), ProcFault("timeout"), ProcFault("interrupt")}
StatusOutcomes == {Exit(rc, NoText, NoText) : rc \in {0, 1}}
                    \cup {ProcFault("timeout"), ProcFault("interrupt")}
LoginOutcomes == {Exit(rc, NoText, NoText) : rc \in {0, 1}} \cup {ProcFault("interrupt")}
UserOutcomes == {Exit(0, out, NoText) : out \in Strings({"b", "\n"}, MaxLen)}
                  \cup {Exit(1, NoText, NoText), ProcFault("timeout"), ProcFault("interrupt")}
GhCreateOutcomes == {Exit(0, NoText, NoText), Exit(0, NoText, <<"gh: notice">>),
                     Exit(1, NoText, <<"gh: name already exists">>),
                     ProcFault("timeout"), ProcFault("interrupt")}

\* requests outcomes: an HTTP response (status, body), a network failure
\* (requests.RequestException), or the user interrupts the wait.  A body is
\* JSON or not; a JSON body has the field the program reads, or not.
Body(json, has, val) == [json |-> json, has |-> has, val |-> val]
NoBody == Body(FALSE, FALSE, NoText)
Http(status, body) == [kind |-> "http", status |-> status, body |-> body]
NetFault(k) == [kind |-> k, status |-> 0, body |-> NoBody]
NoResponse == NetFault("none")

IdentityBodies == {Body(TRUE, TRUE, l) : l \in Strings({"a"}, MaxLen) \cup {<<"a", " ">>}}
                    \cup {Body(TRUE, FALSE, NoText), NoBody}
IdentityOutcomes == {Http(s, b) : s \in {200, 401}, b \in IdentityBodies}
                      \cup {NetFault("neterr"), NetFault("interrupt")}
CreateBodies == {Body(TRUE, TRUE, <<"Repository creation failed.">>),
                 Body(TRUE, FALSE, NoText), NoBody}
CreateOutcomes == {Http(201, Body(TRUE, FALSE, NoText)), Http(401, NoBody)}
                    \cup {Http(422, b) : b \in CreateBodies}
                    \cup {NetFault("neterr"), NetFault("interrupt")}

\* Clipboard collaborator: pyperclip missing, copy works, copy raises.
ClipboardOutcomes == {"unavailable", "copied", "failed"}

\* ----------------------------------------------------------------- state

VARIABLES
    pc,                   \* position of the single control thread
    jsonErrorIsRequestException,
                          \* installed requests: does response.json() raise a
                          \* RequestException subclass (>= 2.27) or a plain ValueError
    use_gh_cli,           \* self.use_gh_cli
    token,                \* self.token
    username,             \* self.username
    helperAuthenticated,  \* the helper reported itself logged in (status 0, or login 0)
    resolved,             \* setup_auth's return value: "unset", "True", "False"
    repo_name,            \* repo_info['name'], None when get_repo_info returned None
    success,              \* create_repository's return value: "unset", "True", "False"
    error,                \* the error text the creation call returned
    repo_url,             \* the clone URL printed on success
    printed,              \* the diagnostics printed so far (tags)
    reported,             \* the creation error printed by create_repository
    raised,               \* exception that left create_repository: "none", ...
    uncaught,             \* exception that left main: "none", ...
    exit,                 \* "running", "clean" (main returned), "traceback"
    helperCalls,          \* helper subcommands invoked, in order
    apiCalls,             \* HTTPS calls issued, in order
    prompts,              \* console prompts shown, in order
    createLog,            \* the session as each creation call was issued
    loginAnswer,          \* the raw answer to the login offer
    loginAccepted,        \* branch taken on the offer: "unset", "True", "False"
    loginResult,          \* gh auth login: "none", "ok", "failed"
    ghUser,               \* outcome of the helper's user query
    idResp,               \* outcome of the identity call
    nameInput,            \* the raw repository name entered
    createResp,           \* outcome of the creation call (API transport)
    ghCreate              \* outcome of the creation call (helper transport)

session == <<use_gh_cli, token, username, helperAuthenticated>>
result == <<repo_name, success, error, repo_url, reported>>
calls == <<helperCalls, apiCalls, createLog>>
inputs == <<loginAnswer, loginAccepted, loginResult, ghUser, idResp, nameInput,
            createResp, ghCreate>>
vars == <<pc, jsonErrorIsRequestException, session, resolved, result, printed,
          raised, uncaught, exit, calls, prompts, inputs>>

NoProc == ProcFault("none")

Init ==
    /\ pc = "start"
    /\ jsonErrorIsRequestException \in BOOLEAN
    /\ use_gh_cli = FALSE
    /\ token = None
    /\ username = None
    /\ helperAuthenticated = FALSE
    /\ resolved = "unset"
    /\ repo_name = None
    /\ success = "unset"
    /\ error = None
    /\ repo_url = None
    /\ printed = {}
    /\ reported = None
    /\ raised = "none"
    /\ uncaught = "none"
    /\ exit = "running"
    /\ helperCalls = <<>>
    /\ apiCalls = <<>>
    /\ prompts = <<>>
    /\ createLog = <<>>
    /\ loginAnswer = None
    /\ loginAccepted = "unset"
    /\ loginResult = "none"
    /\ ghUser = NoProc
    /\ idResp = NoResponse
    /\ nameInput = None
    /\ createResp = NoResponse
    /\ ghCreate = NoProc

\* ------------------------------------------------------- main's handlers

\* main, lines 317-324: the except clause an exception of class `kind` lands in
\* prints its diagnostic.
Diagnostic(kind) == IF kind = "KeyboardInterrupt" THEN "cancelled_by_user"
                    ELSE "unexpected_error_with_traceback"

\* An exception leaves create_repository (or the constructor): main's except
\* clause prints, and the finally clause shows the last prompt.
Raise(kind, also) ==
    /\ raised' = kind
    /\ printed' = printed \cup also \cup {Diagnostic(kind)}
    /\ pc' = "final_prompt"

\* The exception class a console event raises out of input().
ConsoleException(ev) == IF ev = "interrupt" THEN "KeyboardInterrupt" ELSE "Exception"

\* create_repository returns False: main prints no banner and falls into finally.
ReturnFalse(tags) ==
    /\ success' = "False"
    /\ printed' = printed \cup tags
    /\ pc' = "final_prompt"
    /\ UNCHANGED raised

\* --------------------------------------------------- Capability Detector

\* check_gh_cli: the helper is present iff `gh --version` exits 0; a missing
\* executable or a timeout counts as absent.
check_gh_cli(out) == out.kind = "exit" /\ out.rc = 0

\* check_gh_auth: authenticated iff `gh auth status` exits 0; a timeout counts
\* as not authenticated.
check_gh_auth(out) == out.kind = "exit" /\ out.rc = 0

\* A plausible slip: the helper is consulted whether or not the probe found it.
SetupAuthEntryAlwaysHelper(cli) == "check_gh_auth"

\* setup_auth, line 178: with the helper the status probe comes first, without
\* it the token prompt.
SetupAuthEntry(cli) == IF cli THEN "check_gh_auth" ELSE "token_prompt"

\* main line 308, __init__: the constructor probes for the helper and clears
\* the credential fields; setup_auth then prints what was detected.
Construct(out) ==
    /\ pc = "start"
    /\ helperCalls' = Append(helperCalls, "--version")
    /\ IF out.kind = "interrupt"
       THEN /\ Raise("KeyboardInterrupt", {})
            /\ UNCHANGED <<use_gh_cli, token, username>>
       ELSE /\ use_gh_cli' = check_gh_cli(out)
            /\ token' = None
            /\ username' = None
            /\ pc' = SetupAuthEntry(check_gh_cli(out))
            /\ printed' = printed \cup
                 {IF check_gh_cli(out) THEN "gh_detected" ELSE "gh_not_detected"}
            /\ UNCHANGED raised
    /\ UNCHANGED <<jsonErrorIsRequestException, helperAuthenticated, resolved, result,
                   uncaught, exit, apiCalls, createLog, prompts, inputs>>

\* setup_auth, lines 180-185: the status probe.
CheckGhAuth(out) ==
    /\ pc = "check_gh_auth"
    /\ helperCalls' = Append(helperCalls, "auth status")
    /\ IF out.kind = "interrupt"
       THEN /\ Raise("KeyboardInterrupt", {})
            /\ UNCHANGED helperAuthenticated
       ELSE /\ helperAuthenticated' = check_gh_auth(out)
            /\ pc' = IF check_gh_auth(out) THEN "get_username_from_gh" ELSE "login_offer"
            /\ printed' = printed \cup
                 {IF check_gh_auth(out) THEN "gh_logged_in" ELSE "gh_not_logged_in"}
            /\ UNCHANGED raised
    /\ UNCHANGED <<jsonErrorIsRequestException, use_gh_cli, token, username, resolved,
                   result, uncaught, exit, apiCalls, createLog, prompts, inputs>>

\* --------------------------------------------------- Credential Resolver

\* A plausible slip: the answer is compared without upper-casing it.
LoginAcceptedCaseSensitive(answer) == Strip(answer) # <<"N">>

\* setup_auth, lines 186-187: choice = input(...).strip().upper(); choice != 'N'.
LoginAccepted(answer) == Upper(Strip(answer)) # <<"N">>

\* setup_auth, lines 186-187: the login offer.
LoginOffer(ev, answer) ==
    /\ pc = "login_offer"
    /\ prompts' = Append(prompts, "login_offer")
    /\ IF ev # "line"
       THEN /\ Raise(ConsoleException(ev), {})
            /\ UNCHANGED <<loginAnswer, loginAccepted>>
       ELSE /\ loginAnswer' = Some(answer)
            /\ loginAccepted' = IF LoginAccepted(answer) THEN "True" ELSE "False"
            /\ pc' = IF LoginAccepted(answer) THEN "gh_login" ELSE "token_prompt"
            /\ UNCHANGED <<raised, printed>>
    /\ UNCHANGED <<jsonErrorIsRequestException, session, resolved, result, uncaught, exit, calls,
                   loginResult, ghUser, idResp, nameInput, createResp, ghCreate>>

\* gh_login: subprocess.run(check=True) returns on exit 0 and raises
\* CalledProcessError, which is caught, on any other exit.
gh_login(out) == out.rc = 0

\* setup_auth, lines 188-192: the helper's interactive login.
GhLogin(out) ==
    /\ pc = "gh_login"
    /\ helperCalls' = Append(helperCalls, "auth login")
    /\ IF out.kind = "interrupt"
       THEN /\ Raise("KeyboardInterrupt", {"starting_gh_login"})
            /\ UNCHANGED <<loginResult, helperAuthenticated>>
       ELSE /\ loginResult' = IF gh_login(out) THEN "ok" ELSE "failed"
            /\ helperAuthenticated' = gh_login(out)
            /\ pc' = IF gh_login(out) THEN "get_username_from_gh" ELSE "token_prompt"
            /\ printed' = printed \cup {"starting_gh_login"} \cup
                 (IF gh_login(out) THEN {} ELSE {"gh_login_failed"})
            /\ UNCHANGED raised
    /\ UNCHANGED <<jsonErrorIsRequestException, use_gh_cli, token, username, resolved,
                   result, uncaught, exit, apiCalls, createLog, prompts, loginAnswer, loginAccepted,
                   ghUser, idResp, nameInput, createResp, ghCreate>>

\* get_username_from_gh: the trimmed standard output on exit 0, None on any
\* other exit or on a timeout.
get_username_from_gh(out) ==
    IF out.kind = "exit" /\ out.rc = 0 THEN Some(Strip(out.stdout)) ELSE None

\* setup_auth, lines 182-183 and 189-190: the user query, whose result is
\* stored unexamined before setup_auth returns True.
GetUsernameFromGh(out) ==
    /\ pc = "get_username_from_gh"
    /\ helperCalls' = Append(helperCalls, "api user")
    /\ IF out.kind = "interrupt"
       THEN /\ Raise("KeyboardInterrupt", {})
            /\ UNCHANGED <<ghUser, username, resolved>>
       ELSE /\ ghUser' = out
            /\ username' = get_username_from_gh(out)
            /\ resolved' = "True"
            /\ pc' = "get_repo_info"
            /\ UNCHANGED <<raised, printed>>
    /\ UNCHANGED <<jsonErrorIsRequestException, use_gh_cli, token, helperAuthenticated,
                   result, uncaught, exit, apiCalls, createLog, prompts, loginAnswer, loginAccepted,
                   loginResult, idResp, nameInput, createResp, ghCreate>>

\* get_token_from_input: the trimmed line, None when nothing is left.
get_token_from_input(line) == OrNone(Strip(line))

\* setup_auth, lines 198-201: the token prompt.
GetTokenFromInput(ev, line) ==
    /\ pc = "token_prompt"
    /\ prompts' = Append(prompts, "token")
    /\ IF ev # "line"
       THEN /\ Raise(ConsoleException(ev), {})
            /\ UNCHANGED <<token, resolved, success>>
       ELSE /\ token' = get_token_from_input(line)
            /\ IF Truthy(get_token_from_input(line))
               THEN /\ pc' = "get_username_from_token"
                    /\ UNCHANGED <<resolved, success, printed, raised>>
               ELSE /\ resolved' = "False"
                    /\ ReturnFalse({"no_auth_configured"})
    /\ UNCHANGED <<jsonErrorIsRequestException, use_gh_cli, username, helperAuthenticated,
                   repo_name, error, repo_url, reported, uncaught, exit, calls, inputs>>

\* What an attempt to decode a body that is not JSON does: the decode error is
\* caught by `except requests.RequestException` or passes it, by requests version.
DecodeErrorCaught == jsonErrorIsRequestException

\* get_username_from_token: [raises, value, tags]: body['login'] on 200; a
\* printed diagnostic and None on another status or a network failure; a
\* missing 'login' is a KeyError, which nothing in the class catches.
get_username_from_token(resp) ==
    CASE resp.kind = "interrupt" ->
           [raises |-> "KeyboardInterrupt", value |-> None, tags |-> {}]
      [] resp.kind = "neterr" ->
           [raises |-> "none", value |-> None, tags |-> {"network_request_failed"}]
      [] resp.kind = "http" /\ resp.status # 200 ->
           [raises |-> "none", value |-> None, tags |-> {"get_user_failed_status"}]
      [] resp.kind = "http" /\ resp.status = 200 /\ resp.body.json /\ resp.body.has ->
           [raises |-> "none", value |-> Some(resp.body.val), tags |-> {}]
      [] resp.kind = "http" /\ resp.status = 200 /\ resp.body.json /\ ~resp.body.has ->
           [raises |-> "Exception", value |-> None, tags |-> {}]
      [] resp.kind = "http" /\ resp.status = 200 /\ ~resp.body.json ->
           IF DecodeErrorCaught
           THEN [raises |-> "none", value |-> None, tags |-> {"network_request_failed"}]
           ELSE [raises |-> "Exception", value |-> None, tags |-> {}]

\* setup_auth, lines 203-209: the identity call validates the token.
GetUsernameFromToken(resp) ==
    /\ pc = "get_username_from_token"
    /\ apiCalls' = Append(apiCalls, [endpoint |-> "GET /user", token |-> token])
    /\ idResp' = resp
    /\ LET r == get_username_from_token(resp) IN
       IF r.raises # "none"
       THEN /\ Raise(r.raises, {})
            /\ UNCHANGED <<username, resolved, success>>
       ELSE /\ username' = r.value
            /\ IF Truthy(r.value)
               THEN /\ resolved' = "True"
                    /\ printed' = printed \cup {"user_verified"}
                    /\ pc' = "get_repo_info"
                    /\ UNCHANGED <<success, raised>>
               ELSE /\ resolved' = "False"
                    /\ ReturnFalse(r.tags \cup {"token_validation_failed"})
    /\ UNCHANGED <<jsonErrorIsRequestException, use_gh_cli, token, helperAuthenticated,
                   repo_name, error, repo_url, reported, uncaught, exit, helperCalls, createLog,
                   prompts, loginAnswer, loginAccepted, loginResult, ghUser, nameInput,
                   createResp, ghCreate>>

\* ---------------------------------------------------- Repository Creator

\* A plausible slip: the helper transport is chosen whenever the helper is
\* installed, whether or not a token was collected.
UseGhTransportIgnoringToken(cli, tok) == cli

\* create_repository, line 252: `self.use_gh_cli and not self.token`.
UseGhTransport(cli, tok) == cli /\ ~Truthy(tok)

\* A plausible slip: the name is tested before it is trimmed.
RepoNameUntrimmed(line) == line

\* get_repo_info, line 216: the trimmed line.
RepoName(line) == Strip(line)

\* get_repo_info and create_repository lines 238-252: the name prompt, the
\* empty-name check and the choice of transport.
GetRepoInfo(ev, line) ==
    /\ pc = "get_repo_info"
    /\ prompts' = Append(prompts, "repo_name")
    /\ IF ev # "line"
       THEN /\ Raise(ConsoleException(ev), {})
            /\ UNCHANGED <<nameInput, repo_name, success>>
       ELSE /\ nameInput' = Some(line)
            /\ IF RepoName(line) # <<>>
               THEN /\ repo_name' = Some(RepoName(line))
                    /\ pc' = IF UseGhTransport(use_gh_cli, token)
                             THEN "create_repo_with_gh" ELSE "create_repo_with_api"
                    /\ printed' = printed \cup {"creating"}
                    /\ UNCHANGED <<success, raised>>
               ELSE /\ repo_name' = None
                    /\ ReturnFalse({"repo_name_empty"})
    /\ UNCHANGED <<jsonErrorIsRequestException, session, resolved, error, repo_url,
                   reported, uncaught, exit, calls, loginAnswer, loginAccepted, loginResult,
                   ghUser, idResp, createResp, ghCreate>>

\* create_repository, line 271: the f-string that builds the clone URL.
CloneUrl(user, name) ==
    <<"https://github.com/">> \o Format(user) \o <<"/">> \o name \o <<".git">>

\* Clipboard step, lines 277-285: what is printed for each outcome.
ClipboardTag(clip) == CASE clip = "copied" -> "copied_to_clipboard"
                        [] clip = "failed" -> "clipboard_copy_failed"
                        [] OTHER -> "copy_manually"

\* The session a creation call is issued with.
Issued(transport) ==
    [transport |-> transport, token |-> token, username |-> username,
     helperAuthenticated |-> helperAuthenticated, name |-> repo_name.val]

\* create_repository, lines 266-287, and main, lines 312-315: a failed call is
\* printed and ends the run; a successful one prints the clone URL, offers it
\* to the clipboard, and main prints its banner.
Finish(r, clip) ==
    /\ error' = r.err
    /\ IF r.ok
       THEN /\ repo_url' = Some(CloneUrl(username, repo_name.val))
            /\ success' = "True"
            /\ printed' = printed \cup {"created", ClipboardTag(clip), "done_banner"}
            /\ UNCHANGED reported
       ELSE /\ reported' = r.err
            /\ success' = "False"
            /\ printed' = printed \cup {"create_failed"}
            /\ UNCHANGED repo_url
    /\ pc' = "final_prompt"
    /\ UNCHANGED raised

\* A plausible slip: the helper's exit status is not looked at.
GhCreateResultAlwaysOk(out) ==
    [ok |-> TRUE, err |-> IF out.kind = "timeout" THEN Some(<<"command timed out">>)
                          ELSE Some(out.stderr)]

\* create_repo_with_gh, lines 130-139: (returncode == 0, stderr), or
\* (False, "command timed out").
GhCreateResult(out) ==
    IF out.kind = "timeout" THEN [ok |-> FALSE, err |-> Some(<<"command timed out">>)]
    ELSE [ok |-> out.rc = 0, err |-> Some(out.stderr)]

\* create_repository, lines 253-257 and after: creation through the helper.
CreateRepoWithGh(out, clip) ==
    /\ pc = "create_repo_with_gh"
    /\ helperCalls' = Append(helperCalls, "repo create")
    /\ createLog' = Append(createLog, Issued("gh"))
    /\ ghCreate' = out
    /\ IF out.kind = "interrupt"
       THEN /\ Raise("KeyboardInterrupt", {})
            /\ UNCHANGED <<success, error, repo_url, reported>>
       ELSE Finish(GhCreateResult(out), clip)
    /\ UNCHANGED <<jsonErrorIsRequestException, session, resolved, repo_name, uncaught, exit,
                   apiCalls, prompts, loginAnswer, loginAccepted, loginResult, ghUser,
                   idResp, nameInput, createResp>>

\* create_repo_with_api, lines 157-169: [raises, ok, err].  201 is success;
\* another status decodes the body for its 'message' (default "unknown
\* error") and formats it after the status code; a network failure is
\* reported under its own text.
create_repo_with_api(resp) ==
    CASE resp.kind = "interrupt" ->
           [raises |-> "KeyboardInterrupt", ok |-> FALSE, err |-> None]
      [] resp.kind = "neterr" ->
           [raises |-> "none", ok |-> FALSE,
            err |-> Some(<<"network request failed: ", "ConnectionError">>)]
      [] resp.kind = "http" /\ resp.status = 201 ->
           [raises |-> "none", ok |-> TRUE, err |-> None]
      [] resp.kind = "http" /\ resp.status # 201 /\ resp.body.json ->
           [raises |-> "none", ok |-> FALSE,
            err |-> Some(<<"create failed (", StatusStr(resp.status), "): ">>
                         \o (IF resp.body.has THEN resp.body.val
                             ELSE <<"unknown error">>))]
      [] resp.kind = "http" /\ resp.status # 201 /\ ~resp.body.json ->
           IF DecodeErrorCaught
           THEN [raises |-> "none", ok |-> FALSE,
                 err |-> Some(<<"network request failed: ", "JSONDecodeError">>)]
           ELSE [raises |-> "Exception", ok |-> FALSE, err |-> None]

\* create_repository, lines 258-264 and after: creation through the API.
CreateRepoWithApi(resp, clip) ==
    /\ pc = "create_repo_with_api"
    /\ apiCalls' = Append(apiCalls, [endpoint |-> "POST /user/repos", token |-> token])
    /\ createLog' = Append(createLog, Issued("api"))
    /\ createResp' = resp
    /\ LET r == create_repo_with_api(resp) IN
       IF r.raises # "none"
       THEN /\ Raise(r.raises, {})
            /\ UNCHANGED <<success, error, repo_url, reported>>
       ELSE Finish([ok |-> r.ok, err |-> r.err], clip)
    /\ UNCHANGED <<jsonErrorIsRequestException, session, resolved, repo_name, uncaught, exit,
                   helperCalls, prompts, loginAnswer, loginAccepted, loginResult, ghUser,
                   idResp, nameInput, ghCreate>>

\* ------------------------------------------------------------ termination

\* main, lines 325-328: the finally clause waits for Enter.  Nothing encloses
\* it, so an exception raised by this input() leaves main and the interpreter
\* ends with a traceback; otherwise main returns and the status is 0.
FinalPrompt(ev) ==
    /\ pc = "final_prompt"
    /\ prompts' = Append(prompts, "press_enter")
    /\ pc' = "terminated"
    /\ uncaught' = IF ev = "line" THEN "none" ELSE ConsoleException(ev)
    /\ exit' = IF ev = "line" THEN "clean" ELSE "traceback"
    /\ UNCHANGED <<jsonErrorIsRequestException, session, resolved, result, printed,
                   raised, calls, inputs>>

\* The process exit status: 0 when main returns; the interpreter's status for
\* an uncaught exception (1) or an uncaught KeyboardInterrupt (130).
ExitStatus == CASE exit = "clean" -> 0
                [] exit = "traceback" /\ uncaught = "KeyboardInterrupt" -> 130
                [] exit = "traceback" /\ uncaught # "KeyboardInterrupt" -> 1

Next ==
    \/ \E out \in ProbeOutcomes : Construct(out)
    \/ \E out \in StatusOutcomes : CheckGhAuth(out)
    \/ \E ev \in ConsoleEvents, answer \in AnswerLines : LoginOffer(ev, answer)
    \/ \E out \in LoginOutcomes : GhLogin(out)
    \/ \E out \in UserOutcomes : GetUsernameFromGh(out)
    \/ \E ev \in ConsoleEvents, line \in TokenLines : GetTokenFromInput(ev, line)
    \/ \E resp \in IdentityOutcomes : GetUsernameFromToken(resp)
    \/ \E ev \in ConsoleEvents, line \in NameLines : GetRepoInfo(ev, line)
    \/ \E out \in GhCreateOutcomes, clip \in ClipboardOutcomes : CreateRepoWithGh(out, clip)
    \/ \E resp \in CreateOutcomes, clip \in ClipboardOutcomes : CreateRepoWithApi(resp, clip)
    \/ \E ev \in ConsoleEvents : FinalPrompt(ev)

Spec == Init /\ [][Next]_vars

\* The run never waits forever on a call or a prompt: every call is bounded by
\* its timeout or answered, so whichever step is enabled is eventually taken.
FairSpec == Spec /\ WF_vars(Next)

\* ---------------------------------------------------------- properties

Range(s) == {s[i] : i \in 1..Len(s)}
Count(s, x) == Cardinality({i \in 1..Len(s) : s[i] = x})

\* A line with nothing but whitespace in it (the empty line included).
IsBlank(s) == \A i \in 1..Len(s) : s[i] \in Whitespace

\* Creation calls issued so far, over both transports.
CreationCalls ==
    Count(helperCalls, "repo create")
      + Cardinality({i \in 1..Len(apiCalls) : apiCalls[i].endpoint = "POST /user/repos"})

\* The helper was asked for anything beyond its version.
HelperSubcommands == Range(helperCalls) \ {"--version"}

\* The identity call answered 200 with a login.
IdentityLogin ==
    IF idResp.kind = "http" /\ idResp.status = 200 /\ idResp.body.json /\ idResp.body.has
    THEN Some(idResp.body.val) ELSE None

\* The helper's user query answered (exit 0) with a login.
HelperLogin ==
    IF ghUser.kind = "exit" /\ ghUser.rc = 0 THEN Some(Strip(ghUser.stdout)) ELSE None

\* The identity resolved for the session: the login of the identity response on
\* the token path, the helper's answer on the helper path.
ResolvedIdentity == IF token.some THEN IdentityLogin ELSE HelperLogin

\* The creation call that was issued failed.
GhCreateFailed ==
    ghCreate.kind = "timeout" \/ (ghCreate.kind = "exit" /\ ghCreate.rc # 0)
ApiCreateFailed ==
    createResp.kind = "neterr" \/ (createResp.kind = "http" /\ createResp.status # 201)

\* C1: whenever a creation call is issued, exactly one of {helper
\* authenticated, token present} holds and the session username is a
\* non-empty string.
C1_SessionInvariantAtCreation ==
    \A i \in 1..Len(createLog) :
        /\ createLog[i].helperAuthenticated # createLog[i].token.some
        /\ createLog[i].username.some
        /\ createLog[i].username.val # <<>>

\* C2: the name prompt and the creation calls happen only after setup_auth
\* returned success, and a run whose credential resolution failed ends with an
\* error reported and a non-zero exit status.
C2_OnlyFromResolvedAndFailedIsNonZero ==
    /\ ("repo_name" \in Range(prompts) \/ CreationCalls > 0) => resolved = "True"
    /\ (resolved = "False" /\ pc = "terminated") =>
          /\ printed \cap {"no_auth_configured", "token_validation_failed"} # {}
          /\ ExitStatus # 0

\* C3: a creation call goes through the helper exactly when the helper is
\* available and no token was collected; every other creation call goes
\* through the API and carries the collected token.
C3_TransportSelection ==
    \A i \in 1..Len(createLog) :
        /\ createLog[i].transport = "gh" <=> (use_gh_cli /\ ~token.some)
        /\ createLog[i].transport # "gh" =>
              /\ createLog[i].transport = "api"
              /\ token.some
              /\ token.val # <<>>
              /\ apiCalls[Len(apiCalls)] = [endpoint |-> "POST /user/repos", token |-> token]
              /\ "repo create" \notin Range(helperCalls)
        /\ createLog[i].transport = "gh" =>
              /\ helperCalls[Len(helperCalls)] = "repo create"
              /\ apiCalls = <<>>

\* C3 witness: the helper is installed, a token was collected after the login
\* was declined or failed, and the creation call went through the API.
C3_Witness ==
    /\ use_gh_cli
    /\ createLog # <<>>
    /\ createLog[1].transport = "api"
    /\ createLog[1].token.some

\* C4: after a repository name that is empty or all whitespace no creation call
\* is issued by either transport, and the run has failed with the validation
\* error printed.
C4_BlankNameNeverCreates ==
    (nameInput.some /\ IsBlank(nameInput.val)) =>
        /\ CreationCalls = 0
        /\ createLog = <<>>
        /\ pc \in {"final_prompt", "terminated"}
        /\ success = "False"
        /\ "repo_name_empty" \in printed
        /\ repo_url = None

\* C4 witness: a name of whitespace only was entered on the token path and the
\* run has ended.
C4_Witness ==
    /\ nameInput.some
    /\ nameInput.val # <<>>
    /\ IsBlank(nameInput.val)
    /\ token.some
    /\ pc = "terminated"

\* C5: once the probe has reported the helper absent, no helper subcommand is
\* invoked for the rest of the run, and the first thing that happens is the
\* token prompt.
C5_AbsentHelperNeverInvoked ==
    "gh_not_detected" \in printed =>
        /\ ~use_gh_cli
        /\ HelperSubcommands = {}
        /\ helperCalls = <<"--version">>
        /\ prompts = <<>> => pc = "token_prompt"
        /\ prompts # <<>> => prompts[1] = "token"

\* C5 witness: the helper was reported absent and the run went on to create a
\* repository and end.
C5_Witness ==
    /\ "gh_not_detected" \in printed
    /\ createLog # <<>>
    /\ pc = "terminated"

\* C6: after the API creation call returned a status other than 201, the run's
\* result is failure and the reported error contains the status code.
C6_Non201ReportsStatus ==
    (createResp.kind = "http" /\ createResp.status # 201) =>
        /\ success = "False"
        /\ reported.some
        /\ StatusStr(createResp.status) \in Range(reported.val)

\* C7: at most one creation call is issued, over one transport; after it
\* failed the other transport is never tried, the run does not succeed, and
\* what is reported is that call's own error.
C7_NoRetryNoFallback ==
    /\ CreationCalls <= 1
    /\ Len(createLog) = CreationCalls
    /\ GhCreateFailed =>
          /\ apiCalls = <<>>
          /\ success = "False"
          /\ repo_url = None
          /\ "create_failed" \in printed
          /\ reported = IF ghCreate.kind = "timeout" THEN Some(<<"command timed out">>)
                        ELSE Some(ghCreate.stderr)
    /\ ApiCreateFailed =>
          /\ "repo create" \notin Range(helperCalls)
          /\ success # "True"
          /\ repo_url = None
          /\ \/ /\ success = "False"
                /\ "create_failed" \in printed
                /\ reported.some
                /\ reported = error
             \/ /\ raised = "Exception"
                /\ "unexpected_error_with_traceback" \in printed

\* C7 witness: the helper's creation call exited non-zero and the run ended.
C7_Witness ==
    /\ ghCreate.kind = "exit"
    /\ ghCreate.rc # 0
    /\ pc = "terminated"

\* C8: when the process has terminated, no KeyboardInterrupt was left uncaught
\* (the exit was clean) and the final prompt was the last thing shown.
C8_InterruptsCaughtAndFinalPromptShown ==
    pc = "terminated" =>
        /\ uncaught # "KeyboardInterrupt"
        /\ prompts # <<>>
        /\ prompts[Len(prompts)] = "press_enter"

\* The liveness half of C8, which holds under FairSpec: whatever the outcome,
\* the final prompt is shown and the process then terminates.
FinalPromptEventuallyReached ==
    <>(pc = "terminated" /\ prompts # <<>> /\ prompts[Len(prompts)] = "press_enter")

\* C9: after a successful creation the clone URL is
\* https://github.com/{username}/{repositoryName}.git with the identity
\* resolved for the session and the trimmed name that was entered.
C9_CloneUrlOfResolvedIdentity ==
    success = "True" =>
        /\ ResolvedIdentity.some
        /\ repo_url = Some(<<"https://github.com/">> \o ResolvedIdentity.val \o <<"/">>
                           \o Strip(nameInput.val) \o <<".git">>)

\* The parts of C10 that do not depend on how the answer is read: a successful
\* login resolves without a token prompt; a declined or failed login falls
\* through to the token prompt, shown at most once; and after it the resolver
\* succeeds only with a validated token.
LoginFlow ==
    /\ loginResult = "ok" =>
          /\ "token" \notin Range(prompts)
          /\ resolved # "False"
          /\ ghUser # NoProc => resolved = "True"
    /\ (loginAccepted = "False" \/ loginResult = "failed") =>
          /\ pc = "token_prompt" \/ "token" \in Range(prompts)
          /\ resolved = "True" =>
                /\ Truthy(token)
                /\ IdentityLogin.some
                /\ username = IdentityLogin
                /\ username.val # <<>>
    /\ loginResult # "none" => loginAccepted = "True"
    /\ Count(prompts, "token") <= 1

\* C10 as stated: every answer other than N or n accepts the login offer (and
\* the login flow is as described).
C10_AnyAnswerButN ==
    /\ loginAnswer.some =>
          (loginAccepted = "True" <=> loginAnswer.val \notin {<<"N">>, <<"n">>})
    /\ LoginFlow

\* C10 amended: every answer that is not N or n once its surrounding
\* whitespace is removed accepts the login offer (and the login flow is as
\* described).
C10_AnyTrimmedAnswerButN ==
    /\ loginAnswer.some =>
          (loginAccepted = "True" <=> Strip(loginAnswer.val) \notin {<<"N">>, <<"n">>})
    /\ LoginFlow

\* C10 witness: the offer was declined with a padded lower-case n and the
\* session was then resolved with a token.
C10_Witness ==
    /\ loginAnswer = Some(<<"n", " ">>)
    /\ loginAccepted = "False"
    /\ resolved = "True"
    /\ Count(prompts, "token") = 1

====
